---- MODULE Spec2Model ----
(***************************************************************************)
(* A model of the three operational scripts of duct_tape:                  *)
(*   grafana_migration/grafana_dashboard_exporter.py                       *)
(*   aws_ssm_param_rename/ssm_param_mass_rename.py                         *)
(*   azure_vault _to_ssm_param_store/az_secrets_to_ssm_param.py            *)
(* Strings whose characters matter (titles, paths, parameter names) are    *)
(* sequences of one-character strings; identifiers that are only compared  *)
(* (uids) are TLA+ strings.                                                *)
(***************************************************************************)
EXTENDS Integers, Sequences, FiniteSets, TLC

VARIABLES
    pc,                 \* where the running script stands
    \* ---- grafana_dashboard_exporter.py
    search_results,     \* main: the list fetch_resources returned
    folders,            \* build_folder_map: uid -> folder item (closure variable)
    idx,                \* position of the running for loop (1-based)
    caller,             \* who called get_full_path
    folder_uid,         \* get_full_path: its argument
    current_uid,        \* get_full_path: local
    parts,              \* get_full_path: local
    folder_path,        \* get_full_path: the value returned
    data,               \* export_dashboards: dash_json['dashboard'] of the current item
    fs_dirs,            \* file system: directories made by os.makedirs
    fs_files,           \* file system: path -> content written
    written,            \* history: the open(..., 'w') calls made, in order
    noted,              \* history: one earlier get_full_path call and what it returned
    \* ---- ssm_param_mass_rename.py and az_secrets_to_ssm_param.py
    args,               \* the parsed command line
    store,              \* SSM Parameter Store: name -> [Type, Value]
    secrets,            \* az script: the dict get_azure_secrets returned, as a list of pairs
    parameter_mappings, \* rename main: list of (old_name, new_name, Type, Value)
    created_parameters, \* rename main: list of (old_name, new_name)
    pos,                \* position of the running for loop (1-based)
    api_log,            \* history: the get/put/delete_parameter calls made, in order
    csv                 \* the rows of the CSV report written

gvars == <<search_results, folders, idx, caller, folder_uid, current_uid,
           parts, folder_path, data, fs_dirs, fs_files, written, noted>>

svars == <<args, store, secrets, parameter_mappings, created_parameters, pos, api_log, csv>>

vars == <<pc, gvars, svars>>

(***************************************************************************)
(* Bounds of the model.                                                    *)
(***************************************************************************)
\* longest search result list fetched
MaxItems == 3
\* loop iterations of one get_full_path call the model follows before it
\* stops following the walk (the code has no such limit)
MaxWalk == 5

(***************************************************************************)
(* Python values.                                                          *)
(***************************************************************************)
\* Python's None, and what dict.get returns for an absent key
None == "None"

\* truth value of an optional string, as `while current_uid and ...` tests it
Truthy(v) == v # None /\ v # ""

(***************************************************************************)
(* grafana_dashboard_exporter.py: inputs.                                  *)
(***************************************************************************)
FolderUids == {"A", "B", "C"}
DashUids == {"d1", "d2"}

\* the titles a folder may carry: its own letter; folder C may also share A's
FolderTitles(u) == IF u = "C" THEN {<<"C">>, <<"A">>} ELSE {<<u>>}

\* titles a dashboard may carry: all three sanitise to the same file name
DashTitles == {<<"a", "b">>, <<"a", " ", "b">>, <<"a", ":", "b">>}

FolderItems ==
    { [type |-> "dash-folder", uid |-> u, title |-> t, parentUid |-> p, folderUid |-> None] :
        u \in FolderUids, t \in UNION {FolderTitles(x) : x \in FolderUids},
        p \in FolderUids \cup {None} }

DashItems ==
    { [type |-> "dash-db", uid |-> u, title |-> <<"a", "b">>, parentUid |-> None, folderUid |-> f] :
        u \in DashUids, f \in FolderUids \cup {None} }

Items == {it \in FolderItems : it.title \in FolderTitles(it.uid)} \cup DashItems

SeqsUpTo(S, n) == UNION {[1..k -> S] : k \in 0..n}

\* --dir, the output directory (a global of the script)
DIR == <<"d", "/">>

(***************************************************************************)
(* grafana_dashboard_exporter.py: pure helpers.                            *)
(***************************************************************************)
\* os.path.join(path, *ps): an absolute component restarts the path, a
\* separator is added unless the path so far is empty or ends in one
RECURSIVE os_path_join(_, _)
os_path_join(path, ps) ==
    IF ps = <<>> THEN path
    ELSE LET b == Head(ps)
             joined == IF b # <<>> /\ b[1] = "/" THEN b
                       ELSE IF path = <<>> \/ path[Len(path)] = "/" THEN path \o b
                       ELSE path \o <<"/">> \o b
         IN os_path_join(joined, Tail(ps))

\* title.replace(' ', '').replace('/', '').replace(':', '')
sanitise(title) == SelectSeq(title, LAMBDA c : c \notin {" ", "/", ":"})

\* {item['uid']: item for item in search_results if item.get('type') == 'dash-folder'}
\* a later item with the same uid replaces the earlier one
build_folder_map(sr) ==
    LET at(u) == {k \in DOMAIN sr : sr[k].type = "dash-folder" /\ sr[k].uid = u}
        keys == {sr[k].uid : k \in {j \in DOMAIN sr : sr[j].type = "dash-folder"}}
    IN [u \in keys |-> sr[CHOOSE k \in at(u) : \A j \in at(u) : j <= k]]

\* the keys of the dict in iteration order: the order of first insertion
RECURSIVE dict_keys(_)
dict_keys(sr) ==
    IF sr = <<>> THEN <<>>
    ELSE LET front == dict_keys(SubSeq(sr, 1, Len(sr) - 1))
             last == sr[Len(sr)]
         IN IF last.type = "dash-folder" /\ \A k \in DOMAIN front : front[k] # last.uid
            THEN Append(front, last.uid)
            ELSE front

\* parts = []
InitialPartsWithDir == <<DIR>>
InitialParts == <<>>

\* while current_uid and current_uid in folders
LoopCondStopsBelowRoot(uid, fs) ==
    Truthy(uid) /\ uid \in DOMAIN fs /\ Truthy(fs[uid].parentUid)
LoopCondNeedsParent(uid, fs) ==
    /\ Truthy(uid) /\ uid \in DOMAIN fs
    /\ (fs[uid].parentUid = None \/ fs[uid].parentUid \in DOMAIN fs)
LoopCond(uid, fs) == Truthy(uid) /\ uid \in DOMAIN fs

\* parts.insert(0, folder['title'])
InsertAtEnd(ps, folder) == Append(ps, folder.title)
InsertFront(ps, folder) == <<folder.title>> \o ps

\* folder.get('parentUid')
NextUid(folder, fs) == folder.parentUid

\* folders, as the loop body leaves it: the body only reads it
FoldersAfterPop(fs, uid) == [u \in DOMAIN fs \ {uid} |-> fs[u]]
FoldersAfterStep(fs, uid) == fs

\* return os.path.join(DIR, *parts) if parts else DIR
ReturnValue(ps) == IF ps # <<>> THEN os_path_join(DIR, ps) ELSE DIR

NoData == [uid |-> None, title |-> <<>>]
NothingNoted == [set |-> FALSE, later |-> FALSE, id |-> None, parts |-> <<>>, path |-> <<>>]

\* the state of the parameter-store scripts while neither runs
NoArgs == [dry_run |-> FALSE]
StoreIdle ==
    /\ args = NoArgs
    /\ store = <<>>
    /\ secrets = <<>>
    /\ parameter_mappings = <<>>
    /\ created_parameters = <<>>
    /\ pos = 1
    /\ api_log = <<>>
    /\ csv = <<>>

\* the state of the exporter while it does not run
GrafanaIdle ==
    /\ search_results = <<>>
    /\ folders = <<>>
    /\ idx = 1
    /\ caller = "main"
    /\ folder_uid = None
    /\ current_uid = None
    /\ parts = <<>>
    /\ folder_path = DIR
    /\ data = NoData
    /\ fs_dirs = {}
    /\ fs_files = <<>>
    /\ written = <<>>
    /\ noted = NothingNoted

(***************************************************************************)
(* get_full_path, one loop iteration at a time.                            *)
(***************************************************************************)
\* the call: parts = [], current_uid = folder_uid
Enter(uid, who) ==
    /\ folder_uid' = uid
    /\ current_uid' = uid
    /\ parts' = InitialParts
    /\ caller' = who
    /\ pc' = "while"

\* one iteration of the while loop
get_full_path_step ==
    /\ pc = "while"
    /\ LoopCond(current_uid, folders)
    /\ Len(parts) < MaxWalk
    /\ LET folder == folders[current_uid]
       IN /\ parts' = InsertFront(parts, folder)
          /\ current_uid' = NextUid(folder, folders)
          /\ folders' = FoldersAfterStep(folders, current_uid)
    /\ UNCHANGED <<pc, search_results, idx, caller, folder_uid, folder_path, data,
                   fs_dirs, fs_files, written, noted>>
    /\ UNCHANGED svars

\* the loop has ended
Returning(who) == pc = "while" /\ caller = who /\ ~LoopCond(current_uid, folders)

(***************************************************************************)
(* The resolver on its own: get_full_path called with any id, any number   *)
(* of times, on the map build_folder_map made.                             *)
(***************************************************************************)
ResolveIds == FolderUids \cup {None, ""}

InitResolve ==
    /\ \E sr \in SeqsUpTo(Items, MaxItems) : folders = build_folder_map(sr)
    /\ search_results = <<>>
    /\ pc = "idle"
    /\ idx = 1
    /\ caller = "resolve"
    /\ folder_uid = None
    /\ current_uid = None
    /\ parts = <<>>
    /\ folder_path = DIR
    /\ data = NoData
    /\ fs_dirs = {}
    /\ fs_files = <<>>
    /\ written = <<>>
    /\ noted = NothingNoted
    /\ StoreIdle

resolve_call ==
    /\ pc \in {"idle", "returned"}
    /\ \E uid \in ResolveIds : Enter(uid, "resolve")
    /\ UNCHANGED <<search_results, folders, idx, folder_path, data, fs_dirs, fs_files,
                   written, noted>>
    /\ UNCHANGED svars

resolve_return ==
    /\ Returning("resolve")
    /\ folder_path' = ReturnValue(parts)
    /\ pc' = "returned"
    /\ \/ noted' = [noted EXCEPT !.later = noted.set]
       \/ /\ ~noted.set
          /\ noted' = [set |-> TRUE, later |-> FALSE, id |-> folder_uid, parts |-> parts,
                       path |-> ReturnValue(parts)]
    /\ UNCHANGED <<search_results, folders, idx, caller, folder_uid, current_uid, parts,
                   data, fs_dirs, fs_files, written>>
    /\ UNCHANGED svars

NextResolve == resolve_call \/ get_full_path_step \/ resolve_return

SpecResolve == InitResolve /\ [][NextResolve]_vars

(***************************************************************************)
(* grafana_dashboard_exporter.py: main().                                  *)
(***************************************************************************)
\* before main() has fetched anything
InitExport ==
    /\ pc = "start"
    /\ search_results = <<>>
    /\ folders = <<>>
    /\ idx = 1
    /\ caller = "main"
    /\ folder_uid = None
    /\ current_uid = None
    /\ parts = <<>>
    /\ folder_path = DIR
    /\ data = NoData
    /\ fs_dirs = {}
    /\ fs_files = <<>>
    /\ written = <<>>
    /\ noted = NothingNoted
    /\ StoreIdle

\* GET /api/dashboards/uid/<uid>: the body has a 'dashboard' with some title, or none
Responses(item) ==
    {NoData} \cup {[uid |-> item.uid, title |-> t] : t \in DashTitles}

\* the file of a dashboard: os.path.join(folder_path, f"{name}.json")
FileOf(path, d) == os_path_join(path, << sanitise(d.title) \o <<".json">> >>)

\* open(path, 'w') and the two writes: the file holds this dashboard, whatever it held
WriteFile(files, path, d) ==
    [p \in DOMAIN files \cup {path} |-> IF p = path THEN d ELSE files[p]]

\* create_root_directories(); fetch_resources(); build_folder_map(search_results)
main_fetch ==
    /\ pc = "start"
    /\ \E sr \in SeqsUpTo(Items, MaxItems) :
          /\ search_results' = sr
          /\ folders' = build_folder_map(sr)
    /\ fs_dirs' = fs_dirs \cup {DIR}
    /\ idx' = 1
    /\ pc' = "create_folder_structure"
    /\ UNCHANGED <<caller, folder_uid, current_uid, parts, folder_path, data, fs_files,
                   written, noted>>
    /\ UNCHANGED svars

\* create_folder_structure: the head of `for uid in folders`, up to the call
create_folder_structure_next ==
    /\ pc = "create_folder_structure"
    /\ LET keys == dict_keys(search_results)
       IN IF idx <= Len(keys)
          THEN /\ Enter(keys[idx], "create_folder_structure")
               /\ idx' = idx
          ELSE /\ pc' = "export_dashboards"
               /\ idx' = 1
               /\ UNCHANGED <<caller, folder_uid, current_uid, parts>>
    /\ UNCHANGED <<search_results, folders, folder_path, data, fs_dirs, fs_files,
                   written, noted>>
    /\ UNCHANGED svars

\* create_folder_structure: get_full_path returns; os.makedirs(folder_path, exist_ok=True)
create_folder_structure_makedirs ==
    /\ Returning("create_folder_structure")
    /\ folder_path' = ReturnValue(parts)
    /\ fs_dirs' = fs_dirs \cup {ReturnValue(parts)}
    /\ idx' = idx + 1
    /\ pc' = "create_folder_structure"
    /\ UNCHANGED <<search_results, folders, caller, folder_uid, current_uid, parts, data,
                   fs_files, written, noted>>
    /\ UNCHANGED svars

\* export_dashboards: the head of `for dash in search_results`, up to the call of
\* get_full_path; an item that is no dashboard, or has no 'dashboard' in the
\* response, is skipped
export_dashboards_next ==
    /\ pc = "export_dashboards"
    /\ IF idx > Len(search_results)
       THEN /\ pc' = "done"
            /\ UNCHANGED <<idx, caller, folder_uid, current_uid, parts, data>>
       ELSE LET dash == search_results[idx]
            IN IF dash.type # "dash-db"
               THEN /\ idx' = idx + 1
                    /\ UNCHANGED <<pc, caller, folder_uid, current_uid, parts, data>>
               ELSE \E dash_json \in Responses(dash) :
                       IF dash_json = NoData
                       THEN /\ idx' = idx + 1
                            /\ UNCHANGED <<pc, caller, folder_uid, current_uid, parts, data>>
                       ELSE /\ data' = dash_json
                            /\ Enter(dash.folderUid, "export_dashboards")
                            /\ idx' = idx
    /\ UNCHANGED <<search_results, folders, folder_path, fs_dirs, fs_files, written, noted>>
    /\ UNCHANGED svars

\* export_dashboards: get_full_path returns; makedirs; the file is opened for
\* writing and written
export_dashboards_write ==
    /\ Returning("export_dashboards")
    /\ LET path == ReturnValue(parts)
           file == FileOf(path, data)
       IN /\ folder_path' = path
          /\ fs_dirs' = fs_dirs \cup {path}
          /\ fs_files' = WriteFile(fs_files, file, data)
          /\ written' = Append(written, [path |-> file, data |-> data])
    /\ idx' = idx + 1
    /\ pc' = "export_dashboards"
    /\ UNCHANGED <<search_results, folders, caller, folder_uid, current_uid, parts, data,
                   noted>>
    /\ UNCHANGED svars

NextExport ==
    \/ main_fetch
    \/ create_folder_structure_next
    \/ create_folder_structure_makedirs
    \/ export_dashboards_next
    \/ export_dashboards_write
    \/ get_full_path_step

SpecExport == InitExport /\ [][NextExport]_vars

(***************************************************************************)
(* Strings as sequences of characters: the str methods the scripts use.    *)
(***************************************************************************)
\* s.startswith(prefix)
StartsWith(s, prefix) == Len(prefix) <= Len(s) /\ SubSeq(s, 1, Len(prefix)) = prefix

\* old in s
Contains(s, old) ==
    \E k \in 1..(Len(s) - Len(old) + 1) : SubSeq(s, k, k + Len(old) - 1) = old

\* s.replace(old, new): every occurrence, leftmost first, not overlapping; an
\* empty old matches before every character and at the end
RECURSIVE Replace(_, _, _)
Replace(s, old, new) ==
    IF old = <<>>
    THEN IF s = <<>> THEN new ELSE new \o <<s[1]>> \o Replace(Tail(s), old, new)
    ELSE IF Len(s) < Len(old) THEN s
    ELSE IF SubSeq(s, 1, Len(old)) = old
         THEN new \o Replace(SubSeq(s, Len(old) + 1, Len(s)), old, new)
         ELSE <<s[1]>> \o Replace(Tail(s), old, new)

(***************************************************************************)
(* SSM Parameter Store, as the boto3 client presents it.                   *)
(***************************************************************************)
\* put_parameter succeeded: the name holds the value, whatever it held
Put(st, name, entry) == [n \in DOMAIN st \cup {name} |-> IF n = name THEN entry ELSE st[n]]

\* delete_parameter succeeded
Remove(st, name) == [n \in DOMAIN st \ {name} |-> st[n]]

\* get_parameter: ParameterNotFound for a missing name; any call may fail (ClientError)
GetOutcomes(st, name) == IF name \in DOMAIN st THEN {TRUE, FALSE} ELSE {FALSE}

\* put_parameter: ParameterAlreadyExists unless Overwrite; any call may fail
PutOutcomes(st, name, overwrite) ==
    IF name \in DOMAIN st /\ ~overwrite THEN {FALSE} ELSE {TRUE, FALSE}

\* delete_parameter: ParameterNotFound for a missing name; any call may fail
DeleteOutcomes(st, name) == IF name \in DOMAIN st THEN {TRUE, FALSE} ELSE {FALSE}

\* one entry of the call history
Call(op, name, ok) == [op |-> op, name |-> name, ok |-> ok]

\* the orders in which a set may be listed
Orders(S) ==
    {q \in [1..Cardinality(S) -> S] : \A a, b \in DOMAIN q : a # b => q[a] # q[b]}

(***************************************************************************)
(* ssm_param_mass_rename.py: inputs.                                       *)
(***************************************************************************)
\* most parameters the store holds when the script starts
MaxParams == 3

ParamNames ==
    { <<"/", "a">>, <<"/", "b">>, <<"/", "a", "a">>, <<"/", "a", "b">>,
      <<"/", "b", "a">>, <<"/", "a", "/", "a">> }

\* a store: every parameter holds a value of its own, named after where it started
Stores ==
    { [n \in S |-> [Type |-> "String", Value |-> <<"v">> \o n]] :
        S \in {T \in SUBSET ParamNames : Cardinality(T) <= MaxParams} }

\* --old-pattern and --new-pattern
Patterns ==
    { [old |-> <<"a">>, new |-> <<"b">>], [old |-> <<"a">>, new |-> <<"a", "a">>] }

\* the command line; path_prefix is empty when --path-prefix is not given
RenameArgs ==
    { [old_pattern |-> pt.old, new_pattern |-> pt.new, path_prefix |-> pp,
       dry_run |-> d, delete_old |-> del, overwrite |-> o, confirm |-> c] :
        pt \in Patterns, pp \in {<<>>, <<"/">>},
        d \in BOOLEAN, del \in BOOLEAN, o \in BOOLEAN, c \in BOOLEAN }

\* what the user may type at a prompt
Inputs == {"yes", "y", "no"}

(***************************************************************************)
(* ssm_param_mass_rename.py: helpers.                                      *)
(***************************************************************************)
\* path_prefix, defaulted to old_pattern and made to start with '/'
PathPrefix(a) ==
    LET given == IF a.path_prefix # <<>> THEN a.path_prefix ELSE a.old_pattern
    IN IF StartsWith(given, <<"/">>) THEN given ELSE <<"/">> \o given

\* get_parameters_by_path(Path, Recursive=True): the names below Path in the hierarchy
UnderPath(name, path) ==
    LET dir == IF path[Len(path)] = "/" THEN path ELSE path \o <<"/">>
    IN StartsWith(name, dir) /\ Len(name) > Len(dir)

get_parameters_by_path(st, path) == {n \in DOMAIN st : UnderPath(n, path)}

transform_parameter_name(old_name, old_pattern, new_pattern) ==
    IF Contains(old_name, old_pattern)
    THEN Replace(old_name, old_pattern, new_pattern)
    ELSE old_name

\* the loop over parameters: a mapping for every name the pattern changes
Mappings(names, st, a) ==
    LET all == [k \in DOMAIN names |->
                  [old_name |-> names[k],
                   new_name |-> transform_parameter_name(names[k], a.old_pattern, a.new_pattern),
                   Type |-> st[names[k]].Type,
                   Value |-> st[names[k]].Value]]
    IN SelectSeq(all, LAMBDA m : m.old_name # m.new_name)

\* if args.dry_run
DryRunUnlessConfirm(a) == a.dry_run /\ ~a.confirm
DryRun(a) == a.dry_run

\* write_csv_report: a row per mapping, the value cut to 50 characters
Report(mappings) ==
    [k \in DOMAIN mappings |->
        [old_name |-> mappings[k].old_name, new_name |-> mappings[k].new_name,
         Type |-> mappings[k].Type,
         preview |-> IF Len(mappings[k].Value) > 50
                     THEN SubSeq(mappings[k].Value, 1, 50) \o <<".", ".", ".">>
                     ELSE mappings[k].Value]]

\* `if not args.confirm: response = input(...)`: with --confirm nothing is asked
NotAsked == "not asked"
Proceeds(a) == IF a.confirm THEN {NotAsked} ELSE Inputs

\* the run goes on unless the answer is neither 'yes' nor 'y'
GoesOn(response) == response = NotAsked \/ response \in {"yes", "y"}

\* created_parameters after one create_parameter call
CreatedAlways(created, m, ok) == Append(created, [old_name |-> m.old_name, new_name |-> m.new_name])
CreatedAfter(created, m, ok) ==
    IF ok THEN Append(created, [old_name |-> m.old_name, new_name |-> m.new_name])
    ELSE created

(***************************************************************************)
(* ssm_param_mass_rename.py: main().                                       *)
(***************************************************************************)
InitRename ==
    /\ pc = "rename_main"
    /\ args \in RenameArgs
    /\ store \in Stores
    /\ secrets = <<>>
    /\ parameter_mappings = <<>>
    /\ created_parameters = <<>>
    /\ pos = 1
    /\ api_log = <<>>
    /\ csv = <<>>
    /\ GrafanaIdle

\* main() up to the first loop: list, transform, the dry run, the first prompt
rename_main ==
    /\ pc = "rename_main"
    /\ \E parameters \in Orders(get_parameters_by_path(store, PathPrefix(args))) :
          LET mappings == Mappings(parameters, store, args)
          IN IF parameters = <<>> \/ mappings = <<>>
             THEN /\ pc' = "rename_nothing"
                  /\ UNCHANGED <<parameter_mappings, csv>>
             ELSE /\ parameter_mappings' = mappings
                  /\ IF DryRun(args)
                     THEN /\ csv' = Report(mappings)
                          /\ pc' = "rename_dry_run_done"
                     ELSE /\ csv' = csv
                          /\ \E response \in Proceeds(args) :
                                pc' = IF GoesOn(response) THEN "rename_create"
                                      ELSE "rename_cancelled"
    /\ UNCHANGED <<args, store, secrets, created_parameters, pos, api_log>>
    /\ UNCHANGED gvars

\* one iteration of `for ... in parameter_mappings`; the last one runs on to the
\* second prompt
rename_create ==
    /\ pc = "rename_create"
    /\ LET m == parameter_mappings[pos]
       IN \E got \in GetOutcomes(store, m.old_name) :
             IF ~got
             THEN /\ api_log' = Append(api_log, Call("get_parameter", m.old_name, FALSE))
                  /\ UNCHANGED <<store, created_parameters>>
             ELSE \E put \in PutOutcomes(store, m.new_name, args.overwrite) :
                     /\ api_log' = api_log \o << Call("get_parameter", m.old_name, TRUE),
                                                Call("put_parameter", m.new_name, put) >>
                     /\ store' = IF put
                                 THEN Put(store, m.new_name, [Type |-> m.Type, Value |-> m.Value])
                                 ELSE store
                     /\ created_parameters' = CreatedAfter(created_parameters, m, put)
    /\ IF pos < Len(parameter_mappings)
       THEN /\ pos' = pos + 1
            /\ pc' = pc
       ELSE /\ pos' = 1
            /\ IF args.delete_old /\ created_parameters' # <<>>
               THEN \E response \in Proceeds(args) :
                       pc' = IF GoesOn(response) THEN "rename_delete"
                             ELSE "rename_delete_cancelled"
               ELSE pc' = "rename_done"
    /\ UNCHANGED <<args, secrets, parameter_mappings, csv>>
    /\ UNCHANGED gvars

\* one iteration of `for ... in created_parameters`
rename_delete ==
    /\ pc = "rename_delete"
    /\ LET old_name == created_parameters[pos].old_name
       IN \E ok \in DeleteOutcomes(store, old_name) :
             /\ api_log' = Append(api_log, Call("delete_parameter", old_name, ok))
             /\ store' = IF ok THEN Remove(store, old_name) ELSE store
    /\ IF pos < Len(created_parameters)
       THEN /\ pos' = pos + 1
            /\ pc' = pc
       ELSE /\ pos' = pos
            /\ pc' = "rename_done"
    /\ UNCHANGED <<args, secrets, parameter_mappings, created_parameters, csv>>
    /\ UNCHANGED gvars

NextRename == rename_main \/ rename_create \/ rename_delete

(***************************************************************************)
(* az_secrets_to_ssm_param.py: inputs.                                     *)
(***************************************************************************)
\* most secrets the vault holds
MaxSecrets == 2

SecretNames == { <<"s">>, <<"t">> }

\* aws_ssm_param_prefix=None, the default of --aws_ssm_param_prefix
NoPrefix == <<"None">>

Prefixes ==
    { NoPrefix, <<>>, <<"p">>, <<"/", "p">>, <<"p", "/">>, <<"/", "p", "/">> }

\* the command line; the vault name is empty when none is passed to main()
AzureArgs ==
    [az_key_vault_name : {<<>>, <<"k", "v">>}, aws_ssm_param_prefix : Prefixes,
     dry_run : BOOLEAN]

\* what get_azure_secrets may return: a dict, in the order the vault listed it
VaultSecrets ==
    UNION { { [k \in DOMAIN q |-> [name |-> q[k], value |-> <<"v">> \o q[k]]] : q \in Orders(S) } :
            S \in {T \in SUBSET SecretNames : Cardinality(T) <= MaxSecrets} }

\* the parameters the store may hold before the migration
AzureStores ==
    { <<>>, [n \in {<<"/", "s">>} |-> [Type |-> "String", Value |-> <<"o", "l", "d">>]] }

(***************************************************************************)
(* az_secrets_to_ssm_param.py: helpers.                                    *)
(***************************************************************************)
\* `if aws_ssm_param_prefix:`
PrefixGiven(prefix) == prefix # NoPrefix /\ prefix # <<>>

\* f"{aws_ssm_param_prefix}": None is formatted as the word None
Formatted(prefix) == IF prefix = NoPrefix THEN <<"N", "o", "n", "e">> ELSE prefix

\* put_ssm_parameter: the name written to
ssm_param_name(secret_name, prefix) ==
    LET name == IF PrefixGiven(prefix)
                THEN Formatted(prefix) \o <<"/">> \o secret_name
                ELSE <<"/">> \o secret_name
    IN Replace(name, <<"/", "/">>, <<"/">>)

\* the rows of migration_output.csv
MigrationOutput(ss, prefix) ==
    [k \in DOMAIN ss |->
        [secret_name |-> ss[k].name,
         ssm_param_name |-> Formatted(prefix) \o <<"/">> \o ss[k].name,
         value |-> ss[k].value]]

\* if dry_run
AzDryRun(a) == a.dry_run

\* boto3.session.Session(aws_profile=...): the session is made, or the call raises
SessionOutcomes == {TRUE, FALSE}

(***************************************************************************)
(* az_secrets_to_ssm_param.py: main().                                     *)
(***************************************************************************)
InitAzure ==
    /\ pc = "azure_main"
    /\ args \in AzureArgs
    /\ store \in AzureStores
    /\ secrets = <<>>
    /\ parameter_mappings = <<>>
    /\ created_parameters = <<>>
    /\ pos = 1
    /\ api_log = <<>>
    /\ csv = <<>>
    /\ GrafanaIdle

\* main() up to the loop over secrets: the vault name, get_azure_secrets, the dry run
azure_main ==
    /\ pc = "azure_main"
    /\ IF args.az_key_vault_name = <<>>
       THEN /\ pc' = "azure_no_vault"
            /\ UNCHANGED <<secrets, csv>>
       ELSE \E ss \in VaultSecrets :
               /\ secrets' = ss
               /\ IF AzDryRun(args)
                  THEN /\ csv' = <<"header">> \o MigrationOutput(ss, args.aws_ssm_param_prefix)
                       /\ pc' = "azure_done"
                  ELSE /\ csv' = csv
                       /\ pc' = IF ss = <<>> THEN "azure_done" ELSE "azure_put"
    /\ UNCHANGED <<args, store, parameter_mappings, created_parameters, pos, api_log>>
    /\ UNCHANGED gvars

\* one iteration of `for secret_name, value in secrets.items()`: put_ssm_parameter
azure_put ==
    /\ pc = "azure_put"
    /\ \E session \in SessionOutcomes :
          IF ~session
          THEN /\ pc' = "azure_raised"
               /\ UNCHANGED <<store, pos, api_log>>
          ELSE LET name == ssm_param_name(secrets[pos].name, args.aws_ssm_param_prefix)
               IN \E ok \in PutOutcomes(store, name, TRUE) :
                     /\ api_log' = Append(api_log, Call("put_parameter", name, ok))
                     /\ store' = IF ok
                                 THEN Put(store, name,
                                          [Type |-> "SecureString", Value |-> secrets[pos].value])
                                 ELSE store
                     /\ IF pos < Len(secrets)
                        THEN /\ pos' = pos + 1
                             /\ pc' = pc
                        ELSE /\ pos' = pos
                             /\ pc' = "azure_done"
    /\ UNCHANGED <<args, secrets, parameter_mappings, created_parameters, csv>>
    /\ UNCHANGED gvars

NextAzure == azure_main \/ azure_put

(***************************************************************************)
(* The specifications.                                                     *)
(***************************************************************************)
\* the two parameter-store scripts
InitStore == InitRename \/ InitAzure

NextStore ==
    \/ rename_main
    \/ rename_create
    \/ rename_delete
    \/ azure_main
    \/ azure_put

SpecStore == InitStore /\ [][NextStore]_vars

\* one run of any of the three scripts, or the resolver on its own
Init == InitResolve \/ InitExport \/ InitRename \/ InitAzure

Next ==
    \/ resolve_call
    \/ resolve_return
    \/ get_full_path_step
    \/ main_fetch
    \/ create_folder_structure_next
    \/ create_folder_structure_makedirs
    \/ export_dashboards_next
    \/ export_dashboards_write
    \/ rename_main
    \/ rename_create
    \/ rename_delete
    \/ azure_main
    \/ azure_put

Spec == Init /\ [][Next]_vars

(***************************************************************************)
(* The folder hierarchy, read off the map without walking it as the code   *)
(* does.                                                                   *)
(***************************************************************************)
\* the id reached from u after n parent links, or the id at which the chain left the map
RECURSIVE After(_, _)
After(u, n) ==
    IF n = 0 \/ u \notin DOMAIN folders THEN u ELSE After(folders[u].parentUid, n - 1)

\* the parent links reachable from u form a cycle
LeadsToCycle(u) == After(u, Cardinality(DOMAIN folders)) \in DOMAIN folders

Acyclic == \A u \in DOMAIN folders : ~LeadsToCycle(u)

\* the folders on the parent chain from u up to a root
ChainOf(u) == {v \in DOMAIN folders : \E n \in 0..Cardinality(DOMAIN folders) : After(u, n) = v}

Depth(u) == Cardinality(ChainOf(u))

\* the topmost folder of u's chain, for u in an acyclic chain
TopOf(u) == CHOOSE v \in ChainOf(u) : folders[v].parentUid \notin DOMAIN folders

\* u's chain ends at a folder whose parentUid names no folder of the map
Dangling(u) ==
    /\ u \in DOMAIN folders
    /\ ~LeadsToCycle(u)
    /\ folders[TopOf(u)].parentUid # None

\* the titles of u's chain, topmost first
RECURSIVE TitlesDown(_, _)
TitlesDown(u, n) ==
    IF n = 0 \/ u \notin DOMAIN folders THEN <<>>
    ELSE Append(TitlesDown(folders[u].parentUid, n - 1), folders[u].title)

\* the map A (no parent) <- B <- C, each titled by its letter
ChainABC ==
    /\ DOMAIN folders = {"A", "B", "C"}
    /\ folders["A"].parentUid = None /\ folders["A"].title = <<"A">>
    /\ folders["B"].parentUid = "A" /\ folders["B"].title = <<"B">>
    /\ folders["C"].parentUid = "B" /\ folders["C"].title = <<"C">>

(***************************************************************************)
(* Claims about get_full_path, checked under SpecResolve.                  *)
(***************************************************************************)
\* C1: when the parent links reachable from the queried id form a cycle, the walk
\* is cut short (it ends in a CycleDetected outcome): it never makes more loop
\* iterations than the map has folders, which it can only do by revisiting an id.
C1_CycleIsDetected ==
    (pc = "while" /\ LeadsToCycle(folder_uid)) => Len(parts) <= Cardinality(DOMAIN folders)

\* C2: in an acyclic hierarchy the sequence of titles a call returns is as long as
\* the depth of the queried folder id: the number of folders on its parent chain.
C2_LengthIsDepth ==
    (pc = "returned" /\ Acyclic) => Len(parts) = Depth(folder_uid)

C2_Witness ==
    pc = "returned" /\ Acyclic /\ Depth(folder_uid) = 3 /\ Len(parts) = 3

\* C3 as stated: on the chain A <- B <- C, resolving "C" returns the titles A, B.
C3_ChainReturnsAB ==
    (pc = "returned" /\ ChainABC /\ folder_uid = "C") => parts = << <<"A">>, <<"B">> >>

\* C3 as amended: on the chain A <- B <- C, resolving "C" returns the titles
\* A, B, C, root first: the queried folder's own title is the last element.
C3_ChainReturnsABC ==
    (pc = "returned" /\ ChainABC /\ folder_uid = "C") =>
        parts = << <<"A">>, <<"B">>, <<"C">> >>

C3_Witness ==
    pc = "returned" /\ ChainABC /\ folder_uid = "C" /\ Len(parts) = 3

\* C4: when the chain of the queried folder ends at a folder whose parentUid is not
\* a key of the map, the call returns normally with the titles from that folder
\* down to the queried one, and the path puts that folder directly under DIR.
C4_DanglingParentEndsWalk ==
    (pc = "returned" /\ Dangling(folder_uid)) =>
        /\ parts = TitlesDown(folder_uid, Cardinality(DOMAIN folders))
        /\ parts[1] = folders[TopOf(folder_uid)].title
        /\ folder_path = os_path_join(DIR, parts)
        /\ SubSeq(folder_path, 1, Len(DIR) + Len(parts[1])) = DIR \o parts[1]

C4_Witness ==
    /\ pc = "returned" /\ Dangling(folder_uid)
    /\ TopOf(folder_uid) # folder_uid
    /\ Len(parts) = 2

\* C5: in every map, resolving None returns no titles, and the path is DIR itself.
C5_NoneIsRoot ==
    (pc = "returned" /\ folder_uid = None) => (parts = <<>> /\ folder_path = DIR)

C5_Witness ==
    pc = "returned" /\ folder_uid = None /\ Cardinality(DOMAIN folders) = 3 /\ noted.later

\* C6: no step of any call changes the folder map, and a call that returns after an
\* earlier call with the same id returned has the same result as that earlier call.
C6_SameAnswer ==
    (pc = "returned" /\ noted.set /\ noted.later /\ noted.id = folder_uid) =>
        (parts = noted.parts /\ folder_path = noted.path)

C6_Pure == [][folders' = folders]_vars /\ []C6_SameAnswer

C6_Witness ==
    /\ pc = "returned" /\ noted.set /\ noted.later /\ noted.id = folder_uid
    /\ Len(parts) = 2

(***************************************************************************)
(* Claims about the export run, checked under SpecExport.                  *)
(***************************************************************************)
\* C7: when the run has ended, the file of every dashboard written during the run
\* still holds that dashboard: none was replaced by another dashboard that came to
\* the same folder path and the same sanitised file name (the code detects no
\* collision, so a replacement is always silent).
C7_NoSilentOverwrite ==
    pc = "done" =>
        \A k \in DOMAIN written : fs_files[written[k].path].uid = written[k].data.uid

(***************************************************************************)
(* Claims about the parameter-store scripts, checked under SpecStore.      *)
(***************************************************************************)
\* the calls of the history that change the store
Writes == {k \in DOMAIN api_log : api_log[k].op \in {"put_parameter", "delete_parameter"}}

\* C8: in a dry run of either script no put_parameter and no delete_parameter call
\* is ever issued, whatever the other flags are: the run never enters a loop that
\* writes to the store, and ends having produced only the CSV report.
C8_DryRunChangesNothing ==
    args.dry_run =>
        /\ Writes = {}
        /\ pc \in {"rename_main", "rename_nothing", "rename_dry_run_done",
                   "azure_main", "azure_no_vault", "azure_done"}

C8_Witness ==
    /\ pc = "rename_dry_run_done"
    /\ args.dry_run /\ args.delete_old /\ args.overwrite /\ args.confirm
    /\ Len(csv) = 2
    /\ Writes = {}

\* the run went through both loops and every API call it made succeeded
RanCleanly ==
    /\ pc = "rename_done"
    /\ ~args.dry_run /\ args.delete_old /\ args.overwrite
    /\ Len(created_parameters) = Len(parameter_mappings)
    /\ \A k \in DOMAIN api_log : api_log[k].ok
    /\ \E k \in DOMAIN api_log : api_log[k].op = "delete_parameter"

\* C9: after such a run, for every listed parameter the pattern renames, the store
\* holds a parameter under the new name with the value the parameter had when it
\* was listed.
C9_NewNameHoldsOldValue ==
    RanCleanly =>
        \A k \in DOMAIN parameter_mappings :
            /\ parameter_mappings[k].new_name \in DOMAIN store
            /\ store[parameter_mappings[k].new_name].Value = parameter_mappings[k].Value

\* C10: every delete_parameter call is made with --delete-old set, on a name the
\* pattern changes, after a successful get_parameter of that name and a successful
\* put_parameter of its new name, and no get or put call follows any delete.
C10_DeleteOnlyAfterCreate ==
    \A d \in DOMAIN api_log :
        api_log[d].op = "delete_parameter" =>
            LET old_name == api_log[d].name
                new_name == transform_parameter_name(old_name, args.old_pattern,
                                                     args.new_pattern)
            IN /\ args.delete_old
               /\ new_name # old_name
               /\ \E g, p \in 1..(d - 1) :
                     /\ g < p
                     /\ api_log[g] = Call("get_parameter", old_name, TRUE)
                     /\ api_log[p] = Call("put_parameter", new_name, TRUE)
               /\ \A k \in DOMAIN api_log :
                     k > d => api_log[k].op = "delete_parameter"

C10_Witness ==
    /\ pc = "rename_done"
    /\ Len(parameter_mappings) = 3
    /\ Len(created_parameters) = 1
    /\ \E k \in DOMAIN api_log : api_log[k] = Call("put_parameter", api_log[k].name, FALSE)
    /\ \E k \in DOMAIN api_log : api_log[k] = Call("get_parameter", api_log[k].name, FALSE)
    /\ \E k \in DOMAIN api_log : api_log[k].op = "delete_parameter" /\ api_log[k].ok

\* C11: every put_parameter call the az script makes, for any secret name and any
\* prefix (absent, empty, with or without a leading or trailing '/'), names a
\* parameter that starts with '/'.
C11_NameIsFullyQualified ==
    pc \in {"azure_main", "azure_put", "azure_done", "azure_raised", "azure_no_vault"} =>
        \A k \in DOMAIN api_log :
            api_log[k].op = "put_parameter" =>
                (api_log[k].name # <<>> /\ api_log[k].name[1] = "/")

====
